---------------------------- MODULE Spec2Model ----------------------------
(* A model of cortex/dataset/dataset.py: the Dataset container (views, h5),  *)
(* normalize, append, from_file, save with its pack step, and iteration.     *)
(* One Dataset object is followed through a bounded number of operations;    *)
(* the hierarchical files it loads and saves, and the process-wide           *)
(* db.auxfile binding, are part of the state.                                *)
EXTENDS Integers, Sequences, FiniteSets, TLC

(* views, h5: the fields of the Dataset object followed (lines 22-23).       *)
(* files:     the hierarchical files on disk, by path.                       *)
(* auxfile:   db.auxfile (lines 73, 92).                                     *)
(* last:      what the last operation was called with and what it did: its   *)
(*            outcome ("ok" or the error raised), the views before it, what  *)
(*            it wrote or yielded, how many from_file calls it made.         *)
(* ops:       the number of operations performed so far.                     *)
VARIABLES views, h5, files, auxfile, last, ops

vars == <<views, h5, files, auxfile, last, ops>>

(* Number of operations performed on the Dataset in one behaviour. *)
MaxOps == 3

---------------------------------------------------------------------------
(* Names, values and collaborators                                          *)

(* The absent value of h5, filename and db.auxfile. *)
None == "None"

(* Keyword names used for views. *)
Names == {"a", "b", "x"}

(* Paths of hierarchical files. *)
FileNames == {"f"}

(* Names bound in the module's global namespace: the imports of lines 1-11   *)
(* and the module's own definitions.  A name used by a function body that is *)
(* not in this set (nor a builtin) raises NameError when it is evaluated.    *)
ModuleGlobals ==
    {"tempfile", "warnings", "np", "h5py", "db", "Transform", "_hdf_write",
     "_vnorm", "Dataview", "Dataset", "normalize",
     "_pack_subjs", "_pack_xfms", "_pack_masks"}

(* The three top-level names from_file does not scan (line 77). *)
ReservedNames == {"data", "subjects", "views"}

(* A Dataview, identified by an id; priority and uniques() are looked up by it. *)
DV(i) == [kind |-> "Dataview", id |-> i]

(* view.priority, the key of __iter__'s sort. *)
Priority == <<2, 1, 1>>

(* The underlying raw-data objects: subject, whether the object is          *)
(* volume-typed, its xfmname and its _mask (a string name, or inline data). *)
DataObjs ==
    <<[subject |-> "S1", volume |-> TRUE,  xfmname |-> "T1", maskstr |-> TRUE,  mask |-> "M1"],
      [subject |-> "S1", volume |-> TRUE,  xfmname |-> "T1", maskstr |-> FALSE, mask |-> "inline"],
      [subject |-> "S2", volume |-> FALSE, xfmname |-> "",   maskstr |-> FALSE, mask |-> ""],
      [subject |-> "S1", volume |-> TRUE,  xfmname |-> "T1", maskstr |-> TRUE,  mask |-> "M1"]>>

(* view.uniques(): the data objects (indices into DataObjs) under each view. *)
Uniques == << <<1, 3>>, <<1, 2>>, <<4>> >>

Subjects == {"S1", "S2"}
XfmKeys == {<<"S1", "T1">>}
MaskKeys == {<<"S1", "T1", "M1">>}

NoViews == [n \in {} |-> DV(1)]

(* dict.update: the entries of g replace or extend those of f. *)
Update(f, g) ==
    [n \in (DOMAIN f) \cup (DOMAIN g) |-> IF n \in DOMAIN g THEN g[n] ELSE f[n]]

Put(f, name, v) == Update(f, [n \in {name} |-> v])

Range(s) == {s[i] : i \in DOMAIN s}

---------------------------------------------------------------------------
(* Hierarchical files                                                       *)

(* A file: whether it exists, its top-level nodes in the file's order (a    *)
(* name and, for a foreign node, what its metadata is), the nodes under     *)
(* views, and the packed subject resources.                                 *)
AbsentFile ==
    [exists |-> FALSE, nodes |-> <<>>, views |-> NoViews,
     subjects |-> {}, xfms |-> {}, masks |-> {}]

EmptyFile == [AbsentFile EXCEPT !.exists = TRUE]

(* h5py.File(filename) with the default mode: the file is created when it   *)
(* does not exist (save relies on this to write a new file).                *)
OpenFile(fs, filename) ==
    IF fs[filename].exists THEN fs ELSE [fs EXCEPT ![filename] = EmptyFile]

TopNames(file) == {file.nodes[i].name : i \in DOMAIN file.nodes}

GoodNode(i) == [ok |-> TRUE, id |-> i, err |-> "none"]
BadNode(e) == [ok |-> FALSE, id |-> 0, err |-> e]

(* The node Dataview._write_hdf leaves under views/<name>. *)
ViewNode(v) == GoodNode(v.id)

(* Files found on disk before the program runs. *)
ViewsGroup == [name |-> "views", meta |-> "group"]

PreExisting ==
    { AbsentFile,
      [EmptyFile EXCEPT !.nodes = <<ViewsGroup>>,
                        !.views = [n \in {"a", "b"} |->
                                     IF n = "a" THEN BadNode("ValueError") ELSE GoodNode(2)]],
      [EmptyFile EXCEPT !.nodes = <<ViewsGroup>>,
                        !.views = [n \in {"a", "x"} |->
                                     IF n = "a" THEN GoodNode(3) ELSE BadNode("KeyError")]],
      [EmptyFile EXCEPT !.nodes = <<[name |-> "junk", meta |-> "none"], ViewsGroup>>,
                        !.views = [n \in {"b"} |-> GoodNode(1)]] }


---------------------------------------------------------------------------
(* Input values                                                             *)

Pair(n, d) == [name |-> n, data |-> d]

Dict(items) == [kind |-> "dict", items |-> items]

Str(path) == [kind |-> "str", path |-> path]

(* A tuple is what cortex.dataset.views.normalize turns into a Dataview;    *)
(* a malformed one makes it fail.                                           *)
Tuple(i, ok) == [kind |-> "tuple", id |-> i, ok |-> ok]

Int42 == [kind |-> "int", id |-> 42]

DatasetValue(vs, handle) == [kind |-> "Dataset", views |-> vs, h5 |-> handle]

(* The process state the operations thread through their calls: the files,  *)
(* db.auxfile, and how many from_file calls the operation has made.         *)
Env(fs, aux, n) == [files |-> fs, aux |-> aux, loads |-> n]

Result(status, norm, env) == [status |-> status, norm |-> norm, env |-> env]

Raised(status, env) == Result(status, DatasetValue(NoViews, None), env)

---------------------------------------------------------------------------
(* Dataset.from_file, lines 68-94                                           *)

(* Line 80, _from_hdf_data(ds.h5, name): the name is looked up in the       *)
(* module's globals first; the function itself reads the node's metadata.   *)
FromHdfData(node) ==
    IF "_from_hdf_data" \notin ModuleGlobals
    THEN [status |-> "NameError", view |-> DV(1)]
    ELSE IF node.meta = "none"
         THEN [status |-> "KeyError", view |-> DV(1)]
         ELSE IF node.meta = "legacy"
              THEN [status |-> "ok", view |-> DV(1)]
              ELSE [status |-> "ValueError", view |-> DV(1)]

(* Lines 81-82: the except clause of the top-level scan. *)
ScanCaught(err) == err = "KeyError"

(* Lines 76-82: the scan of the top-level nodes, in the file's order. *)
RECURSIVE ScanTop(_, _)
ScanTop(vs, nodes) ==
    IF nodes = <<>>
    THEN [status |-> "ok", views |-> vs]
    ELSE LET node == Head(nodes) IN
         IF node.name \in ReservedNames
         THEN ScanTop(vs, Tail(nodes))
         ELSE LET r == FromHdfData(node) IN
              IF r.status = "ok"
              THEN ScanTop(Put(vs, node.name, r.view), Tail(nodes))
              ELSE IF ScanCaught(r.status)
                   THEN ScanTop(vs, Tail(nodes))
                   ELSE [status |-> r.status, views |-> vs]

(* Line 87, Dataview.from_hdf(node): the view the node holds, or the error  *)
(* a corrupt node raises.                                                   *)
FromHdf(node) ==
    IF node.ok
    THEN [status |-> "ok", view |-> DV(node.id)]
    ELSE [status |-> node.err, view |-> DV(1)]

(* Lines 88-90: the bare except clause catches every error. *)
ViewLoadCaughtOnlyKeyError(err) == err = "KeyError"

ViewLoadCaught(err) == TRUE

(* Lines 85-90: the loop over the nodes under views. *)
LoadViews(vs, group) ==
    LET uncaught == {n \in DOMAIN group :
                        /\ FromHdf(group[n]).status # "ok"
                        /\ ~ViewLoadCaught(FromHdf(group[n]).status)}
        loaded == {n \in DOMAIN group : FromHdf(group[n]).status = "ok"}
    IN IF uncaught # {}
       THEN [status |-> FromHdf(group[CHOOSE n \in uncaught : TRUE]).status, views |-> vs]
       ELSE [status |-> "ok",
             views |-> Update(vs, [n \in loaded |-> FromHdf(group[n]).view])]

FromFile(filename, env) ==
    LET fs1 == OpenFile(env.files, filename)
        file == fs1[filename]
        bound == Env(fs1, filename, env.loads + 1)
        scan == ScanTop(NoViews, file.nodes)
    IN IF scan.status # "ok"
       THEN Raised(scan.status, bound)
       ELSE IF "views" \notin TopNames(file)
            THEN Raised("KeyError", bound)
            ELSE LET lv == LoadViews(scan.views, file.views) IN
                 IF lv.status # "ok"
                 THEN Raised(lv.status, bound)
                 ELSE Result("ok", DatasetValue(lv.views, filename),
                             Env(fs1, None, env.loads + 1))

---------------------------------------------------------------------------
(* normalize, Dataset.__init__ and Dataset.append                           *)

(* cortex.dataset.views.normalize, line 206. *)
Vnorm(data) ==
    IF data.ok THEN [status |-> "ok", view |-> DV(data.id)]
    ELSE [status |-> "TypeError", view |-> DV(1)]

(* Lines 34-39: where append puts a normalized value. *)
StoreNormUnderName(vs, name, norm) ==
    [status |-> "ok", views |-> Put(vs, name, norm)]

StoreNormNoOverwrite(vs, name, norm) ==
    IF norm.kind = "Dataview"
    THEN [status |-> "ok", views |-> Put(vs, name, norm)]
    ELSE [status |-> "ok", views |-> Update(norm.views, vs)]

StoreNorm(vs, name, norm) ==
    IF norm.kind = "Dataview"
    THEN [status |-> "ok", views |-> Put(vs, name, norm)]
    ELSE IF norm.kind = "Dataset"
         THEN [status |-> "ok", views |-> Update(vs, norm.views)]
         ELSE [status |-> "ValueError", views |-> vs]

RECURSIVE Normalize(_, _), AppendKw(_, _, _)

(* Lines 198-208. *)
Normalize(data, env) ==
    IF data.kind \in {"Dataset", "Dataview"}
    THEN Result("ok", data, env)
    ELSE IF data.kind = "dict"
    THEN LET r == AppendKw(NoViews, data.items, env) IN
         IF r.status = "ok"
         THEN Result("ok", DatasetValue(r.views, None), r.env)
         ELSE Raised(r.status, r.env)
    ELSE IF data.kind = "str"
    THEN FromFile(data.path, env)
    ELSE IF data.kind = "tuple"
    THEN LET r == Vnorm(data) IN
         IF r.status = "ok" THEN Result("ok", r.view, env) ELSE Raised(r.status, env)
    ELSE Raised("TypeError", env)

(* Lines 27-41: the loop of append over kwargs.items(), in the dict's order. *)
AppendKw(vs, kw, env) ==
    IF kw = <<>>
    THEN [status |-> "ok", views |-> vs, env |-> env]
    ELSE LET r == Normalize(Head(kw).data, env) IN
         IF r.status # "ok"
         THEN [status |-> r.status, views |-> vs, env |-> r.env]
         ELSE LET s == StoreNorm(vs, Head(kw).name, r.norm) IN
              IF s.status # "ok"
              THEN [status |-> s.status, views |-> vs, env |-> r.env]
              ELSE AppendKw(s.views, Tail(kw), r.env)

(* Lines 21-25: Dataset.__init__ called with keyword arguments kw. *)
NewDataset(kw, env) == AppendKw(NoViews, kw, env)

---------------------------------------------------------------------------
(* Dataset.save and the pack step, lines 105-132 and 210-236                *)

(* Lines 106-109: save has nowhere to write. *)
DestinationMissingWithoutFilename(filename, handle) == filename = None

DestinationMissing(filename, handle) == filename = None /\ handle = None

(* Lines 111-112: every view writes itself under views/<name>. *)
WriteViews(file, vs) ==
    [file EXCEPT
        !.views = Update(@, [n \in DOMAIN vs |-> ViewNode(vs[n])]),
        !.nodes = IF DOMAIN vs # {} /\ "views" \notin TopNames(file)
                  THEN Append(@, ViewsGroup) ELSE @]

(* The data objects of view.uniques() over self.views.values(). *)
UniqueData(vs) == UNION {Range(Uniques[vs[n].id]) : n \in DOMAIN vs}

(* Lines 115-126: the three sets.  Line 121 evaluates the name Volume for   *)
(* the first data object it meets.                                          *)
PackCollect(vs) ==
    LET data == UniqueData(vs) IN
    IF data # {} /\ "Volume" \notin ModuleGlobals
    THEN [status |-> "NameError", subjs |-> {}, xfms |-> {}, masks |-> {}]
    ELSE [status |-> "ok",
          subjs |-> {DataObjs[d].subject : d \in data},
          xfms |-> {<<DataObjs[d].subject, DataObjs[d].xfmname>> :
                       d \in {e \in data : DataObjs[e].volume}},
          masks |-> {<<DataObjs[d].subject, DataObjs[d].xfmname, DataObjs[d].mask>> :
                       d \in {e \in data : DataObjs[e].volume /\ DataObjs[e].maskstr}}]

(* Lines 210-236: each element of a set is fetched and written once. *)
PackWrites(keys, all) == [k \in all |-> IF k \in keys THEN 1 ELSE 0]

NoWrites == [subj |-> PackWrites({}, Subjects), xfm |-> PackWrites({}, XfmKeys),
             mask |-> PackWrites({}, MaskKeys)]

PackInto(file, c) ==
    [file EXCEPT
        !.subjects = @ \cup c.subjs, !.xfms = @ \cup c.xfms, !.masks = @ \cup c.masks,
        !.nodes = IF c.subjs # {} /\ "subjects" \notin TopNames(file)
                  THEN Append(@, [name |-> "subjects", meta |-> "group"]) ELSE @]

---------------------------------------------------------------------------
(* Dataset.__iter__, lines 54-56                                            *)

PriorityKey(vs, n) == Priority[vs[n].id]

(* sorted(): a stable sort of the items by the key. *)
RECURSIVE SortedBy(_, _)
SortedBy(vs, items) ==
    IF items = <<>> THEN <<>>
    ELSE LET front == SortedBy(vs, SubSeq(items, 1, Len(items) - 1))
             e == items[Len(items)]
             k == Cardinality({i \in DOMAIN front :
                                  PriorityKey(vs, front[i]) <= PriorityKey(vs, e)})
         IN SubSeq(front, 1, k) \o <<e>> \o SubSeq(front, k + 1, Len(front))

IterUnsorted(vs, items) == items

Iter(vs, items) == SortedBy(vs, items)

(* The orders in which a dict can hand out its keys. *)
ItemOrders(S) ==
    {s \in [1..Cardinality(S) -> S] : \A i, j \in DOMAIN s : s[i] = s[j] => i = j}

---------------------------------------------------------------------------
(* Inputs of the operations                                                 *)

D1 == Dict(<<Pair("a", DV(1)), Pair("b", DV(2))>>)
D2 == Dict(<<Pair("x", DV(3))>>)
D3 == Dict(<<Pair("a", Dict(<<Pair("b", DV(2))>>))>>)
D4 == Dict(<<Pair("b", DV(1)), Pair("x", Int42)>>)

NoFiles == [f \in FileNames |-> AbsentFile]

(* A Dataset object the constructor built from Dataviews. *)
DS1 == DatasetValue(NewDataset(<<Pair("a", DV(2)), Pair("x", DV(1))>>,
                               Env(NoFiles, None, 0)).views, None)

(* Keyword arguments: one pair, or two pairs in the order the dict hands  *)
(* them out, or none.                                                     *)
ViewValues == {DV(1), DV(2), DV(3)}

OtherValues == {Tuple(3, TRUE), Tuple(0, FALSE), D1, D2, D3, D4, DS1, Str("f"), Int42}

Kwargs ==
    {<<Pair(n, v)>> : n \in Names, v \in ViewValues}
    \cup {<<Pair("x", v)>> : v \in OtherValues}
    \cup {<<Pair("a", D2)>>}
    \cup {<<Pair(n, v), Pair("b", w)>> :
             n \in {"a", "x"}, v \in {DV(1), D2, Int42}, w \in {DV(2), D2}}
    \cup {<<>>}

---------------------------------------------------------------------------
(* The state machine                                                        *)

Init ==
    /\ views = NoViews
    /\ h5 = None
    /\ files \in [FileNames -> PreExisting]
    /\ auxfile = None
    /\ last = [op |-> "new", status |-> "ok", loads |-> 0]
    /\ ops = 0

(* ds = Dataset(kw): the object followed becomes the new one, unless the    *)
(* constructor raises.                                                      *)
Construct(kw) ==
    /\ ops < MaxOps
    /\ LET r == NewDataset(kw, Env(files, auxfile, 0)) IN
       /\ views' = IF r.status = "ok" THEN r.views ELSE views
       /\ h5' = IF r.status = "ok" THEN None ELSE h5
       /\ files' = r.env.files
       /\ auxfile' = r.env.aux
       /\ last' = [op |-> "init", status |-> r.status, loads |-> r.env.loads, kw |-> kw]
    /\ ops' = ops + 1

(* ds.append(kw): the views stored before a raise stay stored. *)
AppendOp(kw) ==
    /\ ops < MaxOps
    /\ LET r == AppendKw(views, kw, Env(files, auxfile, 0)) IN
       /\ views' = r.views
       /\ files' = r.env.files
       /\ auxfile' = r.env.aux
       /\ last' = [op |-> "append", status |-> r.status, loads |-> r.env.loads,
                   kw |-> kw, before |-> views]
    /\ h5' = h5
    /\ ops' = ops + 1

(* ds = Dataset.from_file(filename). *)
Load(filename) ==
    /\ ops < MaxOps
    /\ LET r == FromFile(filename, Env(files, auxfile, 0)) IN
       /\ views' = IF r.status = "ok" THEN r.norm.views ELSE views
       /\ h5' = IF r.status = "ok" THEN r.norm.h5 ELSE h5
       /\ files' = r.env.files
       /\ auxfile' = r.env.aux
       /\ last' = [op |-> "from_file", status |-> r.status, loads |-> r.env.loads,
                   filename |-> filename,
                   aftersave |-> (last.op = "save" /\ last.status = "ok" /\ last.fresh
                                  /\ last.filename = filename),
                   saved |-> IF last.op = "save" /\ last.status = "ok" /\ last.fresh
                                /\ last.filename = filename
                             THEN last.before ELSE NoViews]
    /\ ops' = ops + 1

(* ds.save(filename, pack). *)
Save(filename, pack) ==
    /\ ops < MaxOps
    /\ IF DestinationMissing(filename, h5)
       THEN /\ UNCHANGED <<views, h5, files, auxfile>>
            /\ last' = [op |-> "save", status |-> "ValueError", loads |-> 0,
                        filename |-> filename, pack |-> pack, before |-> views,
                        handle |-> h5, wrote |-> {}, writes |-> NoWrites,
                        flushed |-> FALSE, fresh |-> FALSE]
       ELSE LET handle == IF filename # None THEN filename ELSE h5
                fs1 == OpenFile(files, handle)
                written == WriteViews(fs1[handle], views)
                c == IF pack THEN PackCollect(views)
                     ELSE [status |-> "ok", subjs |-> {}, xfms |-> {}, masks |-> {}]
            IN /\ views' = views
               /\ h5' = handle
               /\ auxfile' = auxfile
               /\ files' = [fs1 EXCEPT ![handle] =
                              IF c.status = "ok" THEN PackInto(written, c) ELSE written]
               /\ last' = [op |-> "save", status |-> c.status, loads |-> 0,
                           filename |-> filename, pack |-> pack, before |-> views,
                           handle |-> h5, wrote |-> DOMAIN views,
                           writes |-> IF c.status = "ok"
                                      THEN [subj |-> PackWrites(c.subjs, Subjects),
                                            xfm |-> PackWrites(c.xfms, XfmKeys),
                                            mask |-> PackWrites(c.masks, MaskKeys)]
                                      ELSE NoWrites,
                           flushed |-> c.status = "ok",
                           fresh |-> ~files[handle].exists]
    /\ ops' = ops + 1

(* for name, dv in ds: the pairs in the order __iter__ yields them. *)
Iterate(items) ==
    /\ ops < MaxOps
    /\ last' = [op |-> "iter", status |-> "ok", loads |-> 0,
                out |-> Iter(views, items), before |-> views,
                built |-> (last.op = "init" /\ last.status = "ok"),
                kw |-> IF last.op = "init" /\ last.status = "ok" THEN last.kw ELSE <<>>]
    /\ UNCHANGED <<views, h5, files, auxfile>>
    /\ ops' = ops + 1

Next ==
    \/ \E kw \in Kwargs : Construct(kw)
    \/ \E kw \in Kwargs : AppendOp(kw)
    \/ \E filename \in FileNames : Load(filename)
    \/ \E filename \in FileNames \cup {None}, pack \in BOOLEAN : Save(filename, pack)
    \/ \E items \in ItemOrders(DOMAIN views) : Iterate(items)

Spec == Init /\ [][Next]_vars

---------------------------------------------------------------------------
(* Properties                                                               *)

(* What a value contributes to a Dataset once it is flattened: a Dataset    *)
(* its views, a dict the views its items flatten to (later items replacing  *)
(* earlier ones), a path the views that load from the file.                 *)
RECURSIVE FlatOf(_, _), FlatItems(_, _, _)
FlatOf(data, fs) ==
    IF data.kind = "Dataset" THEN data.views
    ELSE IF data.kind = "dict" THEN FlatItems(NoViews, data.items, fs)
    ELSE [n \in {m \in DOMAIN fs[data.path].views : fs[data.path].views[m].ok} |->
            DV(fs[data.path].views[n].id)]

FlatItems(vs, items, fs) ==
    IF items = <<>> THEN vs
    ELSE LET p == Head(items) IN
         FlatItems(IF p.data.kind = "Dataview" THEN Put(vs, p.name, p.data)
                   ELSE IF p.data.kind = "tuple" THEN Put(vs, p.name, DV(p.data.id))
                   ELSE Update(vs, FlatOf(p.data, fs)),
                   Tail(items), fs)

KwNames(kw) == {kw[i].name : i \in DOMAIN kw}

(* The keys a dict or Dataset value is written with. *)
NestedKeys(data) ==
    IF data.kind = "Dataset" THEN DOMAIN data.views
    ELSE {data.items[i].name : i \in DOMAIN data.items}

NestedValue(data, k) ==
    IF data.kind = "Dataset" THEN data.views[k]
    ELSE (CHOOSE p \in Range(data.items) : p.name = k).data

(* C1: every operation that called Dataset.from_file, whether the call      *)
(* returned a Dataset or raised part-way, ends with db.auxfile None.        *)
C1_AuxfileClearedOnEveryPath ==
    last.loads > 0 => auxfile = None

(* C2: when from_file reaches the views sub-tree (the file has one and the  *)
(* top-level scan did not raise), a node whose Dataview.from_hdf fails,     *)
(* with whatever error, does not abort the load: from_file returns, every   *)
(* node that loads is in views under its own name, the failing ones are not. *)
C2_ViewFailureNeverAbortsLoad ==
    (/\ last.op = "from_file"
     /\ "views" \in TopNames(files[last.filename])
     /\ ScanTop(NoViews, files[last.filename].nodes).status = "ok")
    => LET group == files[last.filename].views IN
       /\ last.status = "ok"
       /\ h5 = last.filename
       /\ \A n \in DOMAIN group :
             IF group[n].ok
             THEN n \in DOMAIN views /\ views[n] = DV(group[n].id)
             ELSE n \in DOMAIN views
                    => n \in DOMAIN ScanTop(NoViews, files[last.filename].nodes).views

C2_Witness ==
    /\ last.op = "from_file"
    /\ last.status = "ok"
    /\ \E n \in DOMAIN files[last.filename].views :
          /\ ~files[last.filename].views[n].ok
          /\ files[last.filename].views[n].err = "ValueError"
          /\ n \notin DOMAIN views
    /\ \E n \in DOMAIN files[last.filename].views :
          files[last.filename].views[n].ok /\ n \in DOMAIN views

(* C3: loading a file that has a views sub-tree and a top-level node with a *)
(* name that is not reserved and without recognized metadata does not       *)
(* raise: the node gets no entry in views and from_file returns a Dataset   *)
(* with the handle bound.                                                   *)
C3_ForeignNodeSkipped ==
    (/\ last.op = "from_file"
     /\ "views" \in TopNames(files[last.filename])
     /\ \E i \in DOMAIN files[last.filename].nodes :
           files[last.filename].nodes[i].name \notin ReservedNames
     /\ \A i \in DOMAIN files[last.filename].nodes :
           files[last.filename].nodes[i].name \notin ReservedNames
             => files[last.filename].nodes[i].meta = "none")
    => /\ last.status = "ok"
       /\ h5 = last.filename
       /\ \A i \in DOMAIN files[last.filename].nodes :
             LET name == files[last.filename].nodes[i].name IN
             (name \notin ReservedNames /\ name \notin DOMAIN files[last.filename].views)
               => name \notin DOMAIN views

(* C4: in every reachable state every value stored in views is a Dataview;  *)
(* no Dataset is stored as a value.                                         *)
C4_EveryViewIsDataview ==
    \A n \in DOMAIN views : views[n].kind = "Dataview"

C4_Witness ==
    /\ last.op = "append"
    /\ last.status = "ok"
    /\ \E i \in DOMAIN last.kw : last.kw[i].data.kind \in {"Dataset", "dict"}
    /\ DOMAIN views # DOMAIN last.before

(* C5 as stated: appending one pair whose value is a dict or Dataset leaves *)
(* every key of that dict or Dataset in views, mapped to the value it has   *)
(* there, creates no entry under the outer name, and changes nothing else;  *)
(* appending a Dataview stores it under exactly the name given.             *)
C5_AppendFlattensWrittenKeys ==
    (/\ last.op = "append"
     /\ last.status = "ok"
     /\ Len(last.kw) = 1
     /\ last.kw[1].data.kind \in {"Dataview", "dict", "Dataset"})
    => LET name == last.kw[1].name
           data == last.kw[1].data
       IN IF data.kind = "Dataview"
          THEN views = Put(last.before, name, data)
          ELSE /\ \A k \in NestedKeys(data) :
                     k \in DOMAIN views /\ views[k] = NestedValue(data, k)
               /\ (name \notin NestedKeys(data) /\ name \notin DOMAIN last.before)
                     => name \notin DOMAIN views
               /\ \A n \in (DOMAIN views \cup DOMAIN last.before) \ NestedKeys(data) :
                     /\ n \in DOMAIN views
                     /\ n \in DOMAIN last.before
                     /\ views[n] = last.before[n]

(* C5 as amended: an append of pairs whose values are Dataviews, dicts or   *)
(* Datasets leaves views as before, with each Dataview stored under the     *)
(* name given and each dict or Dataset replaced by the views it flattens    *)
(* to; the outer name of a dict or Dataset gets no entry of its own, and    *)
(* every other entry is unchanged.                                          *)
C5_AppendFlattens ==
    (/\ last.op = "append"
     /\ last.status = "ok"
     /\ \A i \in DOMAIN last.kw : last.kw[i].data.kind \in {"Dataview", "dict", "Dataset"})
    => /\ views = FlatItems(last.before, last.kw, files)
       /\ \A i \in DOMAIN last.kw :
             (/\ last.kw[i].data.kind # "Dataview"
              /\ last.kw[i].name \notin DOMAIN last.before
              /\ last.kw[i].name \notin DOMAIN FlatItems(NoViews, last.kw, files))
             => last.kw[i].name \notin DOMAIN views

C5_Witness ==
    /\ last.op = "append"
    /\ last.status = "ok"
    /\ Len(last.kw) = 1
    /\ last.kw[1].name = "x"
    /\ last.kw[1].data.kind = "dict"
    /\ "x" \notin DOMAIN views
    /\ "b" \in DOMAIN last.before
    /\ "b" \in DOMAIN views
    /\ views["b"] # last.before["b"]

(* What the pack step has to write for the views: the subject of every      *)
(* data object, the (subject, xfmname) of every volume-typed one, and the   *)
(* (subject, xfmname, maskname) of every volume-typed one with a named mask. *)
NeededSubjs(vs) == {DataObjs[d].subject : d \in UniqueData(vs)}

NeededXfms(vs) ==
    {<<DataObjs[d].subject, DataObjs[d].xfmname>> :
        d \in {e \in UniqueData(vs) : DataObjs[e].volume}}

NeededMasks(vs) ==
    {<<DataObjs[d].subject, DataObjs[d].xfmname, DataObjs[d].mask>> :
        d \in {e \in UniqueData(vs) : DataObjs[e].volume /\ DataObjs[e].maskstr}}

PackingSave ==
    last.op = "save" /\ last.pack /\ ~(last.filename = None /\ last.handle = None)

(* C6: in one save(pack=True) call every subject, every (subject, xfmname)  *)
(* and every (subject, xfmname, maskname) the views reach is written once,  *)
(* however many views and data objects reach it.                            *)
C6_EachResourceWrittenOnce ==
    PackingSave
    => /\ \A s \in NeededSubjs(views) : last.writes.subj[s] = 1
       /\ \A x \in NeededXfms(views) : last.writes.xfm[x] = 1
       /\ \A m \in NeededMasks(views) : last.writes.mask[m] = 1

(* C7: save with no filename on a Dataset with no handle raises the         *)
(* missing-destination error having written, packed and flushed nothing,    *)
(* with h5 still None and views unchanged; any other save passes the        *)
(* destination check, binds the handle, and writes every view under its     *)
(* own name.                                                                *)
C7_SaveDestination ==
    last.op = "save"
    => IF last.filename = None /\ last.handle = None
       THEN /\ last.status = "ValueError"
            /\ last.wrote = {}
            /\ last.writes = NoWrites
            /\ ~last.flushed
            /\ h5 = None
            /\ views = last.before
       ELSE /\ last.status # "ValueError"
            /\ h5 = (IF last.filename # None THEN last.filename ELSE last.handle)
            /\ last.wrote = DOMAIN last.before
            /\ views = last.before
            /\ \A n \in DOMAIN views :
                  /\ n \in DOMAIN files[h5].views
                  /\ files[h5].views[n] = ViewNode(views[n])

C7_Witness ==
    /\ last.op = "save"
    /\ last.status = "ValueError"
    /\ last.filename = None
    /\ h5 = None
    /\ DOMAIN views # {}
    /\ \A f \in FileNames : DOMAIN files[f].views = {}

(* C8: save(f) into a fresh file followed by Dataset.from_file(f) returns a *)
(* Dataset with the names the original had and, under each, the view that   *)
(* was written.                                                             *)
C8_RoundTrip ==
    (last.op = "from_file" /\ last.aftersave)
    => /\ last.status = "ok"
       /\ views = last.saved

(* What every iteration shows: each name once, each a Dataview of views,   *)
(* priorities ascending from one pair to the next, views left as it was.   *)
IterationInOrder ==
    /\ Len(last.out) = Cardinality(Range(last.out))
    /\ \A i \in DOMAIN last.out :
          /\ last.out[i] \in DOMAIN views
          /\ views[last.out[i]].kind = "Dataview"
    /\ \A i \in 1..(Len(last.out) - 1) :
          Priority[views[last.out[i]].id] <= Priority[views[last.out[i + 1]].id]
    /\ views = last.before

(* C9 as stated: iterating a Dataset just built from keyword arguments      *)
(* yields exactly the names passed, each once and each a Dataview, in       *)
(* ascending priority, and leaves views alone.                              *)
C9_IterationYieldsNamesPassed ==
    (last.op = "iter" /\ last.built)
    => /\ Range(last.out) = KwNames(last.kw)
       /\ IterationInOrder

(* C9 as amended: the names yielded are the names the inputs are stored     *)
(* under: the name passed for a Dataview or tuple value, and the names of   *)
(* the views a dict, Dataset or path value flattens to in place of the name *)
(* passed; each once, each a Dataview, in ascending priority, views alone.  *)
C9_IterationYieldsStoredNames ==
    (last.op = "iter" /\ last.built)
    => /\ Range(last.out) = DOMAIN FlatItems(NoViews, last.kw, files)
       /\ IterationInOrder

C9_Witness ==
    /\ last.op = "iter"
    /\ last.built
    /\ Len(last.kw) = 2
    /\ \E i \in DOMAIN last.kw : last.kw[i].data.kind = "dict"
    /\ Len(last.out) = 2
    /\ Priority[views[last.out[1]].id] < Priority[views[last.out[2]].id]
    /\ Range(last.out) # KwNames(last.kw)

(* C10: save(pack=True) writes the subjects of all underlying data objects, *)
(* the transforms of exactly the volume-typed ones, and the masks of        *)
(* exactly the volume-typed ones whose mask is a name; an inline mask is    *)
(* never written by the pack step.                                          *)
C10_PackedExactlyWhatIsNamed ==
    PackingSave
    => /\ {s \in Subjects : last.writes.subj[s] > 0} = NeededSubjs(views)
       /\ {x \in XfmKeys : last.writes.xfm[x] > 0} = NeededXfms(views)
       /\ {m \in MaskKeys : last.writes.mask[m] > 0} = NeededMasks(views)
       /\ \A m \in MaskKeys : last.writes.mask[m] > 0 => m[3] # "inline"

===========================================================================
